---- MODULE Spec2Model ----
(***************************************************************************)
(* Model of the GPT-Researcher tools of langchain_community:               *)
(*   utilities/gpt_researcher.py   ReportType, GPTRInput                   *)
(*   tools/gpt_researcher/tool.py  BaseGPTResearcher (get_report, _run,    *)
(*                                 _arun), LocalGPTResearcher,             *)
(*                                 WebGPTResearcher                        *)
(* get_report is wrapped by tenacity's                                     *)
(*   @retry(stop=stop_after_attempt(3),                                    *)
(*          wait=wait_exponential(multiplier=1, min=4, max=10))            *)
(* whose loop (attempt, stop test, wait, sleep, RetryError) is modelled    *)
(* step by step.  The external engine (gpt_researcher.GPTResearcher) is an *)
(* opaque collaborator: what it does on the k-th session of an invocation  *)
(* is an input, the invocation's script.                                   *)
(***************************************************************************)
EXTENDS Integers, Sequences, FiniteSets, TLC

\* ------------------------------------------------------------------------
\* Bounds of the model
\* ------------------------------------------------------------------------

\* The engine's behaviour is scripted for at most this many sessions of one
\* invocation; a session past the script behaves like the last scripted one.
MaxScript == 3

\* ------------------------------------------------------------------------
\* utilities/gpt_researcher.py
\* ------------------------------------------------------------------------

RESEARCH == "research_report"
SUBTOPIC == "subtopic_report"
CUSTOM   == "custom_report"
OUTLINE  == "outline_report"
RESOURCE == "resource_report"

ReportType == {RESEARCH, SUBTOPIC, CUSTOM, OUTLINE, RESOURCE}

\* Literal["local", "web"]
ReportSource == {"local", "web"}

\* GPTRInput.query: any str, the empty string included.
Queries == {"", "Q"}

\* ------------------------------------------------------------------------
\* Exceptions.  A message is a sequence of text pieces; concatenation of
\* strings is concatenation of the sequences.
\* ------------------------------------------------------------------------

NoExc == [type |-> "none", msg |-> <<>>]

Exc(type, msg) == [type |-> type, msg |-> msg]

\* str(e)
Str(e) == e.msg

\* sub occurs in msg as a contiguous run of pieces
Contains(msg, sub) ==
    \E k \in 0..(Len(msg) - Len(sub)) :
        \A j \in 1..Len(sub) : msg[k + j] = sub[j]

\* ------------------------------------------------------------------------
\* The external engine: outcome of one session (construct, conduct_research,
\* write_report).  fails names the call that raises, "none" when all three
\* succeed and write_report returns text.
\* ------------------------------------------------------------------------

Phases == {"construct", "gather", "compose"}

EngineExc(phase) ==
    CASE phase = "construct" -> Exc("OSError", <<"DOC_PATH not set">>)
      [] phase = "gather"    -> Exc("RuntimeError", <<"network down">>)
      [] phase = "compose"   -> Exc("TimeoutError", <<"timed out">>)

Reports == {"Report text", "OK"}

Fail(phase) == [fails |-> phase, exc |-> EngineExc(phase), text |-> ""]
Ok(text)    == [fails |-> "none", exc |-> NoExc, text |-> text]

Failures == {Fail(p) : p \in Phases}
Successes == {Ok(t) : t \in Reports}

\* The task awaiting the engine is cancelled (a caller's deadline, an inner
\* task of the engine): asyncio.CancelledError is raised at the await.  It
\* derives from BaseException, not from Exception.
CancelledError == Exc("CancelledError", <<>>)
AwaitPhases == {"gather", "compose"}
Cancelled(phase) == [fails |-> phase, exc |-> CancelledError, text |-> ""]
Interrupts == {Cancelled(p) : p \in AwaitPhases}

\* isinstance(e, Exception)
IsException(e) == e.type # CancelledError.type

\* A script lists the engine's behaviour session by session up to and
\* including the first success or cancellation, or MaxScript failures.
Scripts ==
    { s \in UNION {[1..n -> Failures \cup Successes \cup Interrupts] : n \in 1..MaxScript} :
        /\ \A k \in 1..(Len(s) - 1) : s[k] \in Failures
        /\ Len(s) < MaxScript => s[Len(s)] \in Successes \cup Interrupts }

\* What the engine does on the k-th session of an invocation with script s.
EngineOutcome(s, k) == IF k <= Len(s) THEN s[k] ELSE s[Len(s)]

AlwaysFails(s) == \A k \in 1..Len(s) : s[k] \in Failures

\* ------------------------------------------------------------------------
\* tools/gpt_researcher/tool.py: the tool classes
\* ------------------------------------------------------------------------

Classes == {"LocalGPTResearcher", "WebGPTResearcher"}

\* Keyword arguments a caller may try to pass to a constructor.
Kwargs ==
    UNION { [D -> ReportType \cup ReportSource] :
              D \in SUBSET {"report_type", "report_source"} }

CtorKwargs ==
    { kw \in Kwargs :
        /\ "report_type" \in DOMAIN kw => kw["report_type"] \in ReportType
        /\ "report_source" \in DOMAIN kw => kw["report_source"] \in ReportSource }

\* A keyword argument, or the default of the parameter.
Arg(kw, key, default) == IF key \in DOMAIN kw THEN kw[key] ELSE default

\* BaseGPTResearcher.__init__(report_type=RESEARCH, report_source="web"):
\* the two fields of the tool.
BaseGPTResearcher(name, report_type, report_source) ==
    [name |-> name, report_type |-> report_type, report_source |-> report_source]

\* Mutant: report_source is not passed on, the base default applies.
LocalGPTResearcher_Unpinned(kw) ==
    BaseGPTResearcher("local_gpt_researcher", Arg(kw, "report_type", RESEARCH), "web")

\* LocalGPTResearcher.__init__(report_type=RESEARCH)
LocalGPTResearcher(kw) ==
    BaseGPTResearcher("local_gpt_researcher", Arg(kw, "report_type", RESEARCH), "local")

\* WebGPTResearcher.__init__(report_type=RESEARCH)
WebGPTResearcher(kw) ==
    BaseGPTResearcher("web_gpt_researcher", Arg(kw, "report_type", RESEARCH), "web")

\* The subclasses' __init__ have the single parameter report_type: any other
\* keyword is a TypeError and no object is made.
Accepts(cls, kw) == DOMAIN kw \subseteq {"report_type"}

NoTool == [name |-> "none", report_type |-> "none", report_source |-> "none"]
NoCtor == [cls |-> "none", kw |-> <<>>, raised |-> "none"]

\* ------------------------------------------------------------------------
\* tenacity: @retry(stop=stop_after_attempt(3),
\*                  wait=wait_exponential(multiplier=1, min=4, max=10))
\* ------------------------------------------------------------------------

StopMaxAttempt == 3
WaitMultiplier == 1
WaitMin == 4
WaitMax == 10
\* wait_exponential's exp_base, left at its default
WaitExpBase == 2

Max2(a, b) == IF a >= b THEN a ELSE b
Min2(a, b) == IF a <= b THEN a ELSE b

\* Mutant: the stop test lets one more attempt through.
StopAfterAttempt_OffByOne(attempt_number) == attempt_number > StopMaxAttempt

\* stop_after_attempt(3): retry_state.attempt_number >= max_attempt_number
StopAfterAttempt(attempt_number) == attempt_number >= StopMaxAttempt

\* Mutant: the floor (min=4) is not applied.
WaitExponential_NoFloor(attempt_number) ==
    Min2(WaitMultiplier * WaitExpBase ^ (attempt_number - 1), WaitMax)

\* wait_exponential.__call__:
\*   exp = exp_base ** (attempt_number - 1); result = multiplier * exp
\*   max(max(0, min), min(result, max))
\* (older releases use exp_base ** attempt_number: the clamped values of the
\* two waits this policy can take are the same)
WaitExponential(attempt_number) ==
    Max2(Max2(0, WaitMin),
         Min2(WaitMultiplier * WaitExpBase ^ (attempt_number - 1), WaitMax))

\* Mutant: only one exception type is retried.
RetryIf_RuntimeErrorOnly(e) == e.type = "RuntimeError"

\* retry, left at its default retry_if_exception_type(Exception): the attempt
\* is retried when its exception is an Exception; any other is re-raised.
RetryIf(e) == IsException(e)

\* RetryError(last_attempt), raised "from" the last attempt's exception when
\* reraise is left False.  str() is "RetryError[<Future ... raised T>]": it
\* names the type of the last attempt's exception, not its message.
RetryError(last) ==
    Exc("RetryError", <<"RetryError[<Future state=finished raised ", last.type, ">]">>)

\* ------------------------------------------------------------------------
\* get_report's body
\* ------------------------------------------------------------------------

\* GPTResearcher(query=..., report_type=..., report_source=..., verbose=...)
GPTResearcher(q, report_type, report_source, verbose) ==
    [query |-> q, report_type |-> report_type, report_source |-> report_source,
     verbose |-> verbose, gathered |-> FALSE]

\* Mutant: report_type is not passed on, the session takes a fixed type.
NewSession_FixedType(self, q) == GPTResearcher(q, RESEARCH, self.report_source, FALSE)

\* The constructor call of get_report.
NewSession(self, q) == GPTResearcher(q, self.report_type, self.report_source, FALSE)

\* "except Exception as e", in get_report and in _run / _arun
Catches(e) == IsException(e)

\* raise ValueError(f"Error generating report: {str(e)}")
GetReportError(e) == Exc("ValueError", <<"Error generating report: ">> \o Str(e))

\* Mutant: the log record leaves out the exception's message.
GetReportLog_NoMessage(e) == <<"Error generating report: ">>

\* logger.error(f"Error generating report: {str(e)}")
GetReportLog(e) == <<"Error generating report: ">> \o Str(e)

\* Mutant: the report is not returned.
GetReportResult_Dropped(report) == ""

\* return report
GetReportResult(report) == report

\* asyncio.run(coro) called while an event loop runs in the calling thread
LoopRunningError ==
    Exc("RuntimeError", <<"asyncio.run() cannot be called from a running event loop">>)

\* Mutant: the blocking entry point wraps the exception once more.
EntryRaise_Wrap(e, entry) ==
    IF entry = "_run" THEN Exc("RuntimeError", <<"Error in _run: ">> \o Str(e)) ELSE e

\* The bare "raise" of _run / _arun: the caught exception, as it is.
EntryRaise(e, entry) == e

\* logger.error(f"Error in _run: {str(e)}") / f"Error in _arun: {str(e)}"
EntryLog(e, entry) == <<"Error in ", entry, ": ">> \o Str(e)

\* ------------------------------------------------------------------------
\* State
\* ------------------------------------------------------------------------

\* Invocations of the tool that may be in progress at the same time.
Caller == "caller"
Peer == "peer"
Invs == {Caller, Peer}

VARIABLES
    tool,   \* the constructed tool object: name, report_type, report_source
    ctor,   \* the constructor call that was made: class, keywords, exception
    call    \* call[i]: the frame of invocation i (see IdleFrame)

vars == <<tool, ctor, call>>

NoOutcome == [kind |-> "none", value |-> "", error |-> NoExc]
Returned(value) == [kind |-> "return", value |-> value, error |-> NoExc]
Raised(e) == [kind |-> "raise", value |-> "", error |-> e]

IdleFrame ==
    [pc             |-> "idle",
     entry          |-> "none",   \* "_run" or "_arun"
     loopRunning    |-> FALSE,    \* an event loop runs in the calling thread
     query          |-> "",
     script         |-> <<>>,     \* the engine's behaviour, session by session
     attempt_number |-> 0,        \* tenacity's retry_state.attempt_number
     upcoming_sleep |-> 0,        \* tenacity's retry_state.upcoming_sleep
     researcher     |-> 0,        \* get_report's local: index into sessions
     requests       |-> <<>>,     \* the arguments of each GPTResearcher(...) call
     sessions       |-> <<>>,     \* the engine sessions constructed so far
     trace          |-> <<>>,     \* the engine calls made so far
     waits          |-> <<>>,     \* the backoff sleeps taken so far
     e              |-> NoExc,    \* the exception caught by get_report
     exc            |-> NoExc,    \* the exception in flight
     report         |-> "",       \* get_report's local
     log            |-> <<>>,     \* logger.error records of this invocation
     outcome        |-> NoOutcome]

Event(op, attempt, session, ok) ==
    [op |-> op, attempt |-> attempt, session |-> session, ok |-> ok]

Init ==
    /\ tool = NoTool
    /\ ctor = NoCtor
    /\ call = [i \in Invs |-> IdleFrame]

\* ------------------------------------------------------------------------
\* Construction of the tool
\* ------------------------------------------------------------------------

New(cls, kw) ==
    IF cls = "LocalGPTResearcher" THEN LocalGPTResearcher(kw) ELSE WebGPTResearcher(kw)

Construct(cls, kw) ==
    /\ ctor = NoCtor
    /\ IF Accepts(cls, kw)
         THEN /\ tool' = New(cls, kw)
              /\ ctor' = [cls |-> cls, kw |-> kw, raised |-> "none"]
         ELSE /\ tool' = NoTool
              /\ ctor' = [cls |-> cls, kw |-> kw, raised |-> "TypeError"]
    /\ UNCHANGED call

\* ------------------------------------------------------------------------
\* One invocation: BaseTool dispatches to _run (blocking) or _arun
\* ------------------------------------------------------------------------

Entries == {"_run", "_arun"}

\* _arun is a coroutine: it only ever runs inside a running event loop.
\* _run is called from a thread in which a loop may or may not be running.
Contexts(entry) == IF entry = "_arun" THEN {TRUE} ELSE BOOLEAN

NewFrame(entry, ctx, q, s) ==
    [IdleFrame EXCEPT !.pc = "entry", !.entry = entry, !.loopRunning = ctx,
                      !.query = q, !.script = s]

Invoke(i, entry, ctx, q, s) ==
    /\ tool # NoTool
    /\ call[i].pc = "idle"
    /\ call' = [call EXCEPT ![i] = NewFrame(entry, ctx, q, s)]
    /\ UNCHANGED <<tool, ctor>>

\* Mutant: asyncio.run starts the coroutine on top of the running loop.
AsyncioRun_Nested(loopRunning) == TRUE

\* asyncio.run(coro) runs the coroutine unless an event loop is already
\* running in the calling thread.
AsyncioRun(loopRunning) == ~loopRunning

\* _run: asyncio.run(self.get_report(query=query)).  The coroutine object is
\* made first; asyncio.run refuses to start when a loop is already running
\* in this thread, and the coroutine is then never run.
RunEnter(i) ==
    /\ call[i].pc = "entry"
    /\ call[i].entry = "_run"
    /\ IF ~AsyncioRun(call[i].loopRunning)
         THEN call' = [call EXCEPT ![i].pc = "entry_except",
                                   ![i].exc = LoopRunningError]
         ELSE call' = [call EXCEPT ![i].pc = "attempt",
                                   ![i].attempt_number = 1]
    /\ UNCHANGED <<tool, ctor>>

\* _arun: await self.get_report(query=query)
ArunEnter(i) ==
    /\ call[i].pc = "entry"
    /\ call[i].entry = "_arun"
    /\ call' = [call EXCEPT ![i].pc = "attempt", ![i].attempt_number = 1]
    /\ UNCHANGED <<tool, ctor>>

\* ------------------------------------------------------------------------
\* get_report under tenacity's retry loop
\* ------------------------------------------------------------------------

Count(trace, op) == Cardinality({j \in 1..Len(trace) : trace[j].op = op})

\* The engine's behaviour on the session the frame is in (or about to make).
Current(f) == EngineOutcome(f.script, Count(f.trace, "construct"))
Upcoming(f) == EngineOutcome(f.script, Count(f.trace, "construct") + 1)

\* The try block of get_report: a call that raises goes to the handler, a
\* call that returns goes on to the next statement.  An exception the
\* handler does not catch leaves get_report as it is, for tenacity to see.
AfterConstruct(raised) == IF raised THEN "except" ELSE "gather"
\* Mutant: a failure of conduct_research is swallowed.
AfterGather_Swallow(raised) == "compose"
AfterGather(raised)    == IF raised THEN "except" ELSE "compose"
AfterCompose(raised)   == IF raised THEN "except" ELSE "return"

\* Mutant: a session bound earlier is kept and used again.
Bind_KeepOld(old, new) == IF old # 0 THEN old ELSE new

\* researcher = GPTResearcher(...): the local names the object just made.
Bind(old, new) == new

\* tenacity calls the wrapped coroutine; its first statement constructs the
\* session: researcher = GPTResearcher(query=..., ..., verbose=False)
GetReportConstruct(i) ==
    LET f == call[i]
        o == Upcoming(f)
        raised == o.fails = "construct"
        n == Len(f.sessions) + 1
    IN  /\ f.pc = "attempt"
        /\ call' = [call EXCEPT
              ![i].requests = Append(@, NewSession(tool, f.query)),
              ![i].sessions = IF raised THEN @ ELSE Append(@, NewSession(tool, f.query)),
              ![i].researcher = IF raised THEN 0 ELSE Bind(f.researcher, n),
              ![i].trace = Append(@, Event("construct", f.attempt_number,
                                           IF raised THEN 0 ELSE n, ~raised)),
              ![i].e = IF raised /\ Catches(o.exc) THEN o.exc ELSE @,
              ![i].exc = IF raised /\ ~Catches(o.exc) THEN o.exc ELSE @,
              ![i].pc = IF raised /\ ~Catches(o.exc) THEN "retry"
                        ELSE AfterConstruct(raised)]
        /\ UNCHANGED <<tool, ctor>>

\* await researcher.conduct_research()
ConductResearch(i) ==
    LET f == call[i]
        o == Current(f)
        raised == o.fails = "gather"
    IN  /\ f.pc = "gather"
        /\ call' = [call EXCEPT
              ![i].trace = Append(@, Event("conduct_research", f.attempt_number,
                                           f.researcher, ~raised)),
              ![i].sessions[f.researcher].gathered = IF raised THEN @ ELSE TRUE,
              ![i].e = IF raised /\ Catches(o.exc) THEN o.exc ELSE @,
              ![i].exc = IF raised /\ ~Catches(o.exc) THEN o.exc ELSE @,
              ![i].pc = IF raised /\ ~Catches(o.exc) THEN "retry"
                        ELSE AfterGather(raised)]
        /\ UNCHANGED <<tool, ctor>>

\* report = await researcher.write_report(); return report
WriteReport(i) ==
    LET f == call[i]
        o == Current(f)
        raised == o.fails = "compose"
    IN  /\ f.pc = "compose"
        /\ call' = [call EXCEPT
              ![i].trace = Append(@, Event("write_report", f.attempt_number,
                                           f.researcher, ~raised)),
              ![i].e = IF raised /\ Catches(o.exc) THEN o.exc ELSE @,
              ![i].exc = IF raised /\ ~Catches(o.exc) THEN o.exc ELSE @,
              ![i].report = IF raised THEN @ ELSE GetReportResult(o.text),
              ![i].pc = IF raised /\ ~Catches(o.exc) THEN "retry"
                        ELSE AfterCompose(raised)]
        /\ UNCHANGED <<tool, ctor>>

\* except Exception as e: logger.error(...); raise ValueError(...)
Except(i) ==
    LET f == call[i]
    IN  /\ f.pc = "except"
        /\ call' = [call EXCEPT ![i].log = Append(@, GetReportLog(f.e)),
                                ![i].exc = GetReportError(f.e),
                                ![i].pc = "retry"]
        /\ UNCHANGED <<tool, ctor>>

\* Mutant: the attempts are counted on the retry object, which all calls share.
AttemptNumber_Shared(i) ==
    CHOOSE n \in {call[j].attempt_number : j \in Invs} :
        \A j \in Invs : call[j].attempt_number <= n

\* tenacity makes a RetryCallState for each call of the wrapped function: the
\* attempt number the stop and wait policies see is that call's own.
AttemptNumber(i) == call[i].attempt_number

\* tenacity, after an attempt that raised: re-raise an exception that is not
\* to be retried; else stop and raise RetryError, or compute the wait and go
\* to sleep.
RetryIter(i) ==
    LET f == call[i]
    IN  /\ f.pc = "retry"
        /\ IF ~RetryIf(f.exc)
             THEN call' = [call EXCEPT ![i].pc = "entry_except"]
             ELSE IF StopAfterAttempt(AttemptNumber(i))
             THEN call' = [call EXCEPT ![i].exc = RetryError(f.exc),
                                       ![i].pc = "entry_except"]
             ELSE call' = [call EXCEPT
                      ![i].upcoming_sleep = WaitExponential(AttemptNumber(i)),
                      ![i].pc = "sleep"]
        /\ UNCHANGED <<tool, ctor>>

\* tenacity: retry_state.prepare_for_next_attempt(); await asyncio.sleep(...)
Sleep(i) ==
    LET f == call[i]
    IN  /\ f.pc = "sleep"
        /\ call' = [call EXCEPT ![i].attempt_number = @ + 1,
                                ![i].waits = Append(@, f.upcoming_sleep),
                                ![i].exc = NoExc,
                                ![i].pc = "attempt"]
        /\ UNCHANGED <<tool, ctor>>

\* _run / _arun: return <the report>
EntryReturn(i) ==
    LET f == call[i]
    IN  /\ f.pc = "return"
        /\ call' = [call EXCEPT ![i].outcome = Returned(f.report),
                                ![i].pc = "done"]
        /\ UNCHANGED <<tool, ctor>>

\* _run / _arun: except Exception as e: logger.error(...); raise.  An
\* exception the handler does not catch reaches the caller without it.
EntryExcept(i) ==
    LET f == call[i]
    IN  /\ f.pc = "entry_except"
        /\ IF Catches(f.exc)
             THEN call' = [call EXCEPT
                      ![i].log = Append(@, EntryLog(f.exc, f.entry)),
                      ![i].outcome = Raised(EntryRaise(f.exc, f.entry)),
                      ![i].pc = "done"]
             ELSE call' = [call EXCEPT ![i].outcome = Raised(f.exc),
                                       ![i].pc = "done"]
        /\ UNCHANGED <<tool, ctor>>

\* The caller has its result or its exception; the frame of the call is gone
\* and the tool can be invoked again.
Discard(i) ==
    /\ call[i].pc = "done"
    /\ call' = [call EXCEPT ![i] = IdleFrame]
    /\ UNCHANGED <<tool, ctor>>

Step(i) ==
    \/ RunEnter(i)
    \/ ArunEnter(i)
    \/ GetReportConstruct(i)
    \/ ConductResearch(i)
    \/ WriteReport(i)
    \/ Except(i)
    \/ RetryIter(i)
    \/ Sleep(i)
    \/ EntryReturn(i)
    \/ EntryExcept(i)

\* ------------------------------------------------------------------------
\* Spec: one caller invoking the tool, one invocation after another
\* ------------------------------------------------------------------------

Next ==
    \/ \E cls \in Classes, kw \in CtorKwargs : Construct(cls, kw)
    \/ \E entry \in Entries, q \in Queries, s \in Scripts :
         \E ctx \in Contexts(entry) : Invoke(Caller, entry, ctx, q, s)
    \/ Step(Caller)
    \/ Discard(Caller)

Spec == Init /\ [][Next]_vars

\* FairSpec: Spec on a scheduler that runs the invocation whenever it can take
\* a step: the event loop resumes the coroutine, a sleep ends, and every
\* engine call returns or raises.
FairSpec == Spec /\ WF_vars(Step(Caller))

\* ------------------------------------------------------------------------
\* SpecPair: one thread gives a query to the blocking entry point (_run, in
\* frame Caller) and, when that call has ended, gives the same query to the
\* suspend-capable one (_arun, in frame Peer) of the same tool, the engine
\* behaving for the second call as it did for the first (the same script).
\* ------------------------------------------------------------------------

InvokeRun(ctx, q, s) ==
    /\ call[Peer].pc = "idle"
    /\ Invoke(Caller, "_run", ctx, q, s)

InvokeArunSame ==
    /\ call[Caller].pc = "done"
    /\ Invoke(Peer, "_arun", TRUE, call[Caller].query, call[Caller].script)

DiscardPair ==
    \/ Discard(Peer)
    \/ call[Peer].pc = "idle" /\ Discard(Caller)

NextPair ==
    \/ \E cls \in Classes, kw \in CtorKwargs : Construct(cls, kw)
    \/ \E q \in Queries, s \in Scripts :
         \E ctx \in Contexts("_run") : InvokeRun(ctx, q, s)
    \/ InvokeArunSame
    \/ \E i \in Invs : Step(i)
    \/ DiscardPair

SpecPair == Init /\ [][NextPair]_vars

\* ------------------------------------------------------------------------
\* SpecConc: two invocations of the same tool in progress at once (two _arun
\* coroutines on one event loop, _run in two threads), their steps
\* interleaved in any order.  Each frame has its own query and its own small
\* set of engine behaviours, so that a result or a session that crossed from
\* one invocation to the other would show.
\* ------------------------------------------------------------------------

ConcQuery(i) == IF i = Caller THEN "Q" ELSE ""

ConcOutcomes(i) ==
    IF i = Caller THEN {Fail("gather"), Ok("OK"), Cancelled("compose")}
                  ELSE {Fail("compose"), Ok("Report text"), Cancelled("gather")}

ConcScripts(i) == {s \in Scripts : \A k \in 1..Len(s) : s[k] \in ConcOutcomes(i)}

NextConc ==
    \/ \E cls \in Classes : Construct(cls, <<>>)
    \/ \E i \in Invs, entry \in Entries :
         \E ctx \in Contexts(entry), s \in ConcScripts(i) :
             Invoke(i, entry, ctx, ConcQuery(i), s)
    \/ \E i \in Invs : Step(i)
    \/ \E i \in Invs : Discard(i)

SpecConc == Init /\ [][NextConc]_vars

\* ------------------------------------------------------------------------
\* Properties
\* ------------------------------------------------------------------------

Done(f) == f.pc = "done"

\* get_report's coroutine was run (asyncio.run refused to start it otherwise)
Ran(f) == f.attempt_number >= 1

\* Attempts of the gather/compose sequence: runs of get_report's body.
Attempts(f) == Count(f.trace, "construct")

Ops(f, op, attempt) ==
    {j \in 1..Len(f.trace) : f.trace[j].op = op /\ f.trace[j].attempt = attempt}

\* C1: when the engine fails on every attempt, an invocation of get_report
\* makes exactly 3 attempts -- never a 4th, and it does not end before the
\* 3rd -- and then ends by raising to the caller, not by returning a report.
C1_ExactlyThreeAttempts ==
    \A i \in Invs :
        LET f == call[i]
        IN  (Ran(f) /\ AlwaysFails(f.script)) =>
              /\ Attempts(f) <= 3
              /\ f.outcome.kind # "return"
              /\ Done(f) => /\ Attempts(f) = 3
                            /\ f.attempt_number = 3
                            /\ f.outcome.kind = "raise"
                            /\ f.outcome.error # NoExc

C1_Witness ==
    \E i \in Invs :
        /\ Done(call[i]) /\ AlwaysFails(call[i].script)
        /\ Attempts(call[i]) = 3
        /\ call[i].outcome.kind = "raise"

\* C2: when the engine fails on attempts 1 and 2 and succeeds on attempt 3,
\* the invocation returns exactly the text write_report produced on the 3rd
\* attempt, after exactly two backoff waits, and raises nothing.
FailsTwiceThenSucceeds(s) ==
    /\ Len(s) >= 3
    /\ s[1] \in Failures /\ s[2] \in Failures /\ s[3] \in Successes

C2_ThirdAttemptResult ==
    \A i \in Invs :
        LET f == call[i]
        IN  (Done(f) /\ Ran(f) /\ FailsTwiceThenSucceeds(f.script)) =>
              /\ f.outcome = Returned(f.script[3].text)
              /\ Len(f.waits) = 2
              /\ Attempts(f) = 3
              /\ \E j \in Ops(f, "write_report", 3) : f.trace[j].ok

C2_Witness ==
    \E i \in Invs :
        /\ Done(call[i]) /\ FailsTwiceThenSucceeds(call[i].script)
        /\ call[i].outcome = Returned("OK")
        /\ Len(call[i].waits) = 2

\* C3: after the retries are exhausted the caller receives a ValueError whose
\* message contains the message of the last engine failure, not an exception
\* type of the retry machinery or of the engine.
EngineExcTypes == {EngineExc(p).type : p \in Phases}

C3_NormalizedError ==
    \A i \in Invs :
        LET f == call[i]
        IN  (Done(f) /\ Ran(f) /\ AlwaysFails(f.script) /\ f.outcome.kind = "raise") =>
              /\ f.outcome.error.type = "ValueError"
              /\ Contains(f.outcome.error.msg, f.e.msg)
              /\ f.outcome.error.type \notin EngineExcTypes \cup {"RetryError"}

\* C4: write_report is called on a session only after conduct_research has
\* returned on that session in the same attempt; an attempt whose
\* conduct_research raised has no write_report call.
C4_GatherBeforeCompose ==
    \A i \in Invs :
        LET f == call[i]
        IN  /\ \A j \in 1..Len(f.trace) :
                 f.trace[j].op = "write_report" =>
                   /\ f.trace[j].session \in 1..Len(f.sessions)
                   /\ f.sessions[f.trace[j].session].gathered
                   /\ \E g \in 1..(j - 1) :
                        /\ f.trace[g].op = "conduct_research"
                        /\ f.trace[g].ok
                        /\ f.trace[g].attempt = f.trace[j].attempt
                        /\ f.trace[g].session = f.trace[j].session
            /\ \A g \in 1..Len(f.trace) :
                 (f.trace[g].op = "conduct_research" /\ ~f.trace[g].ok) =>
                   Ops(f, "write_report", f.trace[g].attempt) = {}

C4_Witness ==
    \E i \in Invs :
        LET f == call[i]
        IN  /\ \E g \in 1..Len(f.trace) :
                 f.trace[g].op = "conduct_research" /\ ~f.trace[g].ok
            /\ \E j \in 1..Len(f.trace) :
                 f.trace[j].op = "write_report" /\ f.trace[j].attempt = 2

\* C5: the delay between failed attempt k and attempt k+1 (k = 1, 2) is at
\* least 4 and at most 10, and the delay before attempt 3 is not smaller than
\* the delay before attempt 2.
C5_BackoffBounds ==
    \A i \in Invs :
        LET w == call[i].waits
        IN  /\ \A k \in 1..Len(w) : 4 <= w[k] /\ w[k] <= 10
            /\ Len(w) >= 2 => w[2] >= w[1]

C5_Witness == \E i \in Invs : Len(call[i].waits) = 2

\* C6: every attempt constructs the engine session with the invocation's
\* query, the tool's report_type and report_source, unmodified, and
\* verbose=False; retries use the same values as the first attempt.
C6_ForwardingFidelity ==
    \A i \in Invs :
        LET f == call[i]
        IN  /\ Len(f.requests) = Attempts(f)
            /\ \A k \in 1..Len(f.requests) :
                 /\ f.requests[k].query = f.query
                 /\ f.requests[k].report_type = tool.report_type
                 /\ f.requests[k].report_source = tool.report_source
                 /\ f.requests[k].verbose = FALSE
                 /\ f.requests[k] = f.requests[1]
            /\ \A k \in 1..Len(f.sessions) :
                 /\ f.sessions[k].query = f.query
                 /\ f.sessions[k].report_type = tool.report_type
                 /\ f.sessions[k].report_source = tool.report_source
                 /\ f.sessions[k].verbose = FALSE

C6_Witness ==
    \E i \in Invs :
        /\ Len(call[i].requests) = 3
        /\ call[i].query = ""
        /\ tool.report_type = SUBTOPIC
        /\ tool.report_source = "local"
        /\ call[i].requests[3].query = ""

\* C7: a LocalGPTResearcher issues every request with source mode "local" and
\* a WebGPTResearcher with "web", each with the report type it was constructed
\* with, RESEARCH when constructed without arguments; neither can be
\* constructed with a source mode of the caller's choice.
Pinned(cls) == IF cls = "LocalGPTResearcher" THEN "local" ELSE "web"

C7_VariantConfiguration ==
    /\ ("report_source" \in DOMAIN ctor.kw) => (tool = NoTool /\ ctor.raised = "TypeError")
    /\ tool # NoTool =>
         /\ tool.report_source = Pinned(ctor.cls)
         /\ tool.report_type = Arg(ctor.kw, "report_type", RESEARCH)
    /\ \A i \in Invs : \A k \in 1..Len(call[i].requests) :
         /\ call[i].requests[k].report_source = Pinned(ctor.cls)
         /\ call[i].requests[k].report_type =
              IF "report_type" \in DOMAIN ctor.kw THEN ctor.kw["report_type"] ELSE RESEARCH

C7_Witness ==
    /\ ctor.cls = "LocalGPTResearcher"
    /\ "report_type" \in DOMAIN ctor.kw
    /\ ctor.kw["report_type"] = OUTLINE
    /\ \E i \in Invs :
         /\ call[i].query = "Q"
         /\ Len(call[i].requests) >= 1
         /\ call[i].requests[1].report_type = OUTLINE
         /\ call[i].requests[1].report_source = "local"

\* C8: when the engine succeeds on the first attempt the invocation returns
\* the text of write_report unchanged, having constructed one session, called
\* conduct_research once and write_report once, and having waited not at all.
C8_FirstAttemptSuccess ==
    \A i \in Invs :
        LET f == call[i]
        IN  (Done(f) /\ Ran(f) /\ f.script[1] \in Successes) =>
              /\ f.outcome = Returned(f.script[1].text)
              /\ Len(f.sessions) = 1
              /\ Count(f.trace, "construct") = 1
              /\ Count(f.trace, "conduct_research") = 1
              /\ Count(f.trace, "write_report") = 1
              /\ f.waits = <<>>
              /\ f.log = <<>>

C8_Witness ==
    \E i \in Invs :
        /\ Done(call[i])
        /\ call[i].script[1] \in Successes
        /\ call[i].outcome = Returned("Report text")
        /\ call[i].waits = <<>>

\* C9 (as claimed): for the same tool, query and engine behaviour, _run and
\* _arun end with the same outcome -- the same report, or the same error after
\* the same number of attempts.
SameOutcome(f, g) ==
    /\ f.outcome = g.outcome
    /\ Attempts(f) = Attempts(g)
    /\ f.waits = g.waits
    /\ f.requests = g.requests

C9_EntryPointsAgree ==
    (Done(call[Caller]) /\ Done(call[Peer])) => SameOutcome(call[Caller], call[Peer])

\* C9 (amended): the two entry points end with the same outcome provided _run
\* is called from a thread in which no event loop is running.
C9_EntryPointsAgreeOutsideLoop ==
    (Done(call[Caller]) /\ Done(call[Peer]) /\ ~call[Caller].loopRunning) =>
        SameOutcome(call[Caller], call[Peer])

C9_Witness ==
    /\ Done(call[Caller]) /\ Done(call[Peer])
    /\ call[Caller].entry = "_run" /\ call[Peer].entry = "_arun"
    /\ ~call[Caller].loopRunning
    /\ call[Caller].script = call[Peer].script
    /\ call[Caller].outcome.kind = "raise"
    /\ call[Peer].outcome.kind = "raise"
    /\ Attempts(call[Peer]) = 3

\* C10 (as claimed): the backoff before attempt 2 is 4 and the backoff before
\* attempt 3 is 8, strictly longer than the first.
C10_GrowingBackoff ==
    \A i \in Invs :
        LET w == call[i].waits
        IN  /\ Len(w) >= 1 => w[1] = 4
            /\ Len(w) >= 2 => (w[2] = 8 /\ w[2] > w[1])

\* C10 (amended): the exponential term (1, then 2) stays under the floor, so
\* the backoff before attempt 2 and the backoff before attempt 3 are both
\* exactly 4: the second wait equals the first.
C10_FlatBackoff ==
    \A i \in Invs :
        LET w == call[i].waits
        IN  /\ Len(w) <= 2
            /\ \A k \in 1..Len(w) : w[k] = 4

C10_Witness ==
    \E i \in Invs :
        /\ Done(call[i])
        /\ call[i].waits = <<4, 4>>
        /\ call[i].attempt_number = 3

\* C11 (as claimed): an exception of any type raised by session construction,
\* conduct_research or write_report on attempt 1 or 2 leads to another
\* attempt; nothing ends the invocation before the 3rd attempt.
FailedAt(f, k) == \E j \in 1..Len(f.trace) : f.trace[j].attempt = k /\ ~f.trace[j].ok

RaisedAt(f, k) == EngineOutcome(f.script, k).exc

EngineCalls == {"conduct_research", "write_report"}

ComposeFailedAt(f, k) ==
    \E j \in Ops(f, "write_report", k) : ~f.trace[j].ok /\ IsException(RaisedAt(f, k))

C12_FreshSessionPerAttempt ==
    \A i \in Invs :
        LET f == call[i]
        IN  /\ \A j \in 1..Len(f.trace) :
                 f.trace[j].op \in EngineCalls =>
                   \E c \in 1..(j - 1) :
                     f.trace[c] = Event("construct", f.trace[j].attempt,
                                        f.trace[j].session, TRUE)
            /\ \A c, d \in 1..Len(f.trace) :
                 (c # d /\ f.trace[c].op = "construct" /\ f.trace[d].op = "construct"
                    /\ f.trace[c].ok /\ f.trace[d].ok) =>
                   /\ f.trace[c].session # f.trace[d].session
                   /\ f.trace[c].attempt # f.trace[d].attempt
            /\ f.pc = "gather" =>
                 /\ f.researcher = Len(f.sessions)
                 /\ ~f.sessions[f.researcher].gathered
            /\ \A k \in {1, 2} :
                 (Done(f) /\ ComposeFailedAt(f, k)) =>
                   /\ Ops(f, "construct", k + 1) # {}
                   /\ \A j \in Ops(f, "write_report", k + 1) :
                        /\ \A h \in Ops(f, "write_report", k) :
                             f.trace[h].session # f.trace[j].session
                        /\ \E g \in Ops(f, "conduct_research", k + 1) :
                             g < j /\ f.trace[g].ok
                                   /\ f.trace[g].session = f.trace[j].session

C12_Witness ==
    \E i \in Invs :
        LET f == call[i]
        IN  /\ Done(f)
            /\ ComposeFailedAt(f, 1)
            /\ f.outcome.kind = "return"
            /\ Len(f.sessions) = 2
            /\ f.sessions[1].gathered /\ f.sessions[2].gathered
            /\ Count(f.trace, "conduct_research") = 2

\* C13: the states of the attempt loop, read off a frame.
Success(f) ==
    /\ f.outcome.kind = "return"
    /\ Attempts(f) >= 1
    /\ \E j \in Ops(f, "write_report", Attempts(f)) : f.trace[j].ok
    /\ f.outcome.value = EngineOutcome(f.script, Attempts(f)).text

ExhaustedFailure(f) ==
    /\ f.outcome.kind = "raise"
    /\ Attempts(f) = 3
    /\ \A k \in 1..3 : FailedAt(f, k) /\ IsException(RaisedAt(f, k))

\* An error raised without the retries being exhausted: asyncio.run's refusal
\* before any attempt, or an exception that is not retried.
UnretriedFailure(f) ==
    /\ f.outcome.kind = "raise"
    /\ \/ /\ Attempts(f) = 0
          /\ f.entry = "_run" /\ f.loopRunning
          /\ f.outcome.error = LoopRunningError
       \/ /\ Attempts(f) >= 1
          /\ FailedAt(f, Attempts(f))
          /\ ~IsException(RaisedAt(f, Attempts(f)))
          /\ f.outcome.error = RaisedAt(f, Attempts(f))

FailureState(f) ==
    IF Attempts(f) = 0 \/ ~IsException(RaisedAt(f, Attempts(f))) THEN "UnretriedFailure"
    ELSE IF f.attempt_number < 3 THEN "RetryableFailure"
    ELSE "ExhaustedFailure"

LoopState(f) ==
    CASE f.pc \in {"idle", "entry"}               -> "None"
      [] f.pc \in {"attempt", "gather", "compose"} -> "Pending"
      [] f.pc \in {"except", "retry"}              -> FailureState(f)
      [] f.pc = "sleep"                            -> "RetryableFailure"
      [] f.pc = "return"                           -> "Success"
      [] f.pc = "entry_except"                     -> FailureState(f)
      [] f.pc = "done" -> IF f.outcome.kind = "return" THEN "Success" ELSE FailureState(f)

TerminalStates == {"Success", "ExhaustedFailure", "UnretriedFailure"}

LoopMoves ==
    {<<"None", "Pending">>, <<"None", "UnretriedFailure">>,
     <<"Pending", "Success">>,
     <<"Pending", "RetryableFailure">>, <<"RetryableFailure", "Pending">>,
     <<"Pending", "ExhaustedFailure">>, <<"Pending", "UnretriedFailure">>}
    \cup {<<t, "None">> : t \in TerminalStates}

ExactlyOneTerminal(f) ==
    /\ Success(f) \/ ExhaustedFailure(f) \/ UnretriedFailure(f)
    /\ ~(Success(f) /\ ExhaustedFailure(f))
    /\ ~(Success(f) /\ UnretriedFailure(f))
    /\ ~(ExhaustedFailure(f) /\ UnretriedFailure(f))

LoopStep(f, g) ==
    /\ LoopState(f) # LoopState(g) => <<LoopState(f), LoopState(g)>> \in LoopMoves
    /\ (LoopState(f) \in TerminalStates /\ g.pc # "idle") =>
         /\ g.trace = f.trace
         /\ g.waits = f.waits
         /\ g.sessions = f.sessions
         /\ g.attempt_number = f.attempt_number

FailedEvents(f) == {j \in 1..Len(f.trace) : ~f.trace[j].ok}

CaughtEvents(f) ==
    {j \in FailedEvents(f) : IsException(RaisedAt(f, f.trace[j].attempt))}

\* Failures handled so far: all but the one whose handler is about to run.
Handled(f, failed) == IF f.pc = "except" THEN Cardinality(failed) - 1 ELSE Cardinality(failed)

AttemptLogged(f, k) ==
    /\ k <= Len(f.log)
    /\ f.log[k] = <<"Error generating report: ">> \o RaisedAt(f, k).msg

EntryLogged(f) ==
    /\ Len(f.log) >= 1
    /\ f.log[Len(f.log)] = <<"Error in ", f.entry, ": ">> \o f.outcome.error.msg

C14_EveryFailureLogged ==
    \A i \in Invs :
        LET f == call[i]
        IN  /\ \A k \in 1..Handled(f, FailedEvents(f)) : AttemptLogged(f, k)
            /\ (Done(f) /\ f.outcome.kind = "raise") =>
                 /\ EntryLogged(f)
                 /\ Len(f.log) = Cardinality(FailedEvents(f)) + 1

\* C14 (amended): the same for every failure that is an Exception; an
\* exception outside Exception (asyncio.CancelledError) passes get_report's
\* handler and the entry point's handler without a log entry.
C14_EveryExceptionLogged ==
    \A i \in Invs :
        LET f == call[i]
        IN  /\ \A k \in 1..Handled(f, CaughtEvents(f)) : AttemptLogged(f, k)
            /\ (Done(f) /\ f.outcome.kind = "raise") =>
                 IF IsException(f.outcome.error)
                   THEN /\ EntryLogged(f)
                        /\ Len(f.log) = Cardinality(CaughtEvents(f)) + 1
                   ELSE Len(f.log) = Cardinality(CaughtEvents(f))
            /\ (Done(f) /\ f.outcome.kind = "return") =>
                 Len(f.log) = Cardinality(CaughtEvents(f))

C14_Witness ==
    \E i \in Invs :
        LET f == call[i]
        IN  /\ Done(f)
            /\ f.outcome.kind = "raise"
            /\ Cardinality(FailedEvents(f)) = 3
            /\ Len(f.log) = 4
            /\ f.log[2] = <<"Error generating report: ", "network down">>
            /\ f.log[4][1] = "Error in "

\* C15: what an invocation does when it runs alone, computed from its inputs:
\* the attempt that ends it, and its outcome.
RECURSIVE EndingAttempt(_, _)
EndingAttempt(s, k) ==
    IF k >= 3 \/ EngineOutcome(s, k) \notin Failures THEN k ELSE EndingAttempt(s, k + 1)

Alone(f) ==
    IF f.entry = "_run" /\ f.loopRunning
      THEN [attempts |-> 0, outcome |-> Raised(LoopRunningError)]
      ELSE LET k == EndingAttempt(f.script, 1)
               o == EngineOutcome(f.script, k)
           IN  [attempts |-> k,
                outcome  |-> IF o \in Successes THEN Returned(o.text)
                             ELSE IF o \in Interrupts THEN Raised(o.exc)
                             ELSE Raised(RetryError(GetReportError(o.exc)))]

\* C15: with two invocations of one tool interleaved in any order, each has
\* its own attempt count and its own sessions, and each ends with the outcome,
\* after the number of attempts and waits, it has when run alone.
C15_IndependentInvocations ==
    \A i \in Invs :
        LET f == call[i]
        IN  /\ Attempts(f) <= 3
            /\ f.pc \notin {"idle", "entry"} /\ Attempts(f) >= 1 =>
                 f.attempt_number = Attempts(f) + (IF f.pc = "attempt" THEN 1 ELSE 0)
            /\ \A k \in 1..Len(f.sessions) : f.sessions[k].query = f.query
            /\ Done(f) =>
                 /\ f.outcome = Alone(f).outcome
                 /\ Attempts(f) = Alone(f).attempts
                 /\ Len(f.waits) = Max2(Alone(f).attempts - 1, 0)

C15_Witness ==
    /\ call[Caller].pc = "sleep"
    /\ call[Caller].attempt_number = 2
    /\ call[Caller].entry = "_arun"
    /\ Done(call[Peer])
    /\ call[Peer].entry = "_arun"
    /\ Attempts(call[Peer]) = 2
    /\ call[Peer].outcome = Returned("Report text")


\* C16: attempts the retry loop has started, and those of them that failed
\* and were followed by another attempt.
Started(f) == f.attempt_number

FollowedFailures(f) == {k \in 1..Started(f) : FailedAt(f, k) /\ Started(f) > k}

\* C16: in every state of an invocation at most 3 attempts have been started,
\* and the backoff waits taken are as many as the failed attempts that were
\* followed by another attempt, at most 2: none before the first attempt and
\* none after a third failed attempt.
C16_AttemptAndWaitCounts ==
    \A i \in Invs :
        LET f == call[i]
        IN  /\ Started(f) <= 3
            /\ Attempts(f) <= Started(f)
            /\ Len(f.waits) = Cardinality(FollowedFailures(f))
            /\ Len(f.waits) <= 2
            /\ Started(f) <= 1 => f.waits = <<>>
            /\ FailedAt(f, 3) => Len(f.waits) = 2 /\ f.pc # "sleep"

C16_Witness ==
    LET f == call[Caller]
    IN  /\ Done(f)
        /\ FailedAt(f, 3)
        /\ Len(f.waits) = 2
        /\ Started(f) = 3


\* C17: invocations of the blocking entry point made while an event loop runs.
InsideLoop(f) == f.pc # "idle" /\ f.entry = "_run" /\ f.loopRunning

\* C17: _run called while an event loop is running never contacts the engine
\* -- no session is constructed, no attempt is made, no backoff wait is taken
\* -- and it ends by raising asyncio's error, after logging it once.
C17_RunInsideLoopRefused ==
    \A i \in Invs :
        LET f == call[i]
        IN  InsideLoop(f) =>
              /\ f.attempt_number = 0
              /\ f.trace = <<>>
              /\ f.requests = <<>>
              /\ f.sessions = <<>>
              /\ f.waits = <<>>
              /\ f.pc \in {"entry", "entry_except", "done"}
              /\ Done(f) =>
                   /\ f.outcome = Raised(LoopRunningError)
                   /\ f.log = <<EntryLog(LoopRunningError, "_run")>>

C17_Witness ==
    LET f == call[Caller]
    IN  /\ InsideLoop(f)
        /\ Done(f)
        /\ f.outcome.kind = "raise"
        /\ f.script[1] \in Successes
        /\ Len(f.log) = 1


\* C18: the configuration the tool was constructed with.
Constructed == New(ctor.cls, ctor.kw)

\* C18: invocations leave the tool's report_type and report_source as the
\* constructor set them, whether they succeed, are retried or fail, and every
\* request of every invocation, the later ones included, carries them.
C18_ConfigurationUnchanged ==
    ctor # NoCtor /\ ctor.raised = "none" =>
        /\ tool = Constructed
        /\ \A i \in Invs : \A k \in 1..Len(call[i].requests) :
             /\ call[i].requests[k].report_type = Constructed.report_type
             /\ call[i].requests[k].report_source = Constructed.report_source

C18_Witness ==
    /\ ctor # NoCtor
    /\ "report_type" \in DOMAIN ctor.kw
    /\ tool.report_type = OUTLINE
    /\ Done(call[Caller])
    /\ call[Caller].outcome.kind = "raise"
    /\ Len(call[Caller].requests) = 3
    /\ Done(call[Peer])
    /\ Len(call[Peer].requests) = 3
    /\ call[Peer].requests[3].report_type = OUTLINE
    /\ call[Peer].requests[3].report_source = tool.report_source

====
